---- MODULE Spec2Model ----
(***************************************************************************)
(* The real-time perception pipeline of Stop-Super-Speeders:               *)
(*   utils/vehicle_tracker.py   CentroidTracker                            *)
(*   utils/speed_estimator.py   SpeedEstimator                             *)
(*   cv_detector_realtime.py    TrafficDetector.process_frame              *)
(*                                                                         *)
(* Conventions of the model                                                *)
(*  - Detections lie on one horizontal line (y and h of every bounding box *)
(*    are the same), so a bounding box is <<x, w>>, a centroid is its x    *)
(*    coordinate and the Euclidean norm of a displacement is |dx|.         *)
(*  - Timestamps are counted in frames; the estimator divides by fps.      *)
(*  - Speeds are fixed-point numbers in units of 1e-5 mph.                 *)
(*  - Python's None is the plate value None below; a plate is a pair       *)
(*    <<kind, n>>: <<"ocr", k>> is the k-th text the OCR engine can return *)
(*    (after format_for_display), <<"NY", id>> is f"NY{id:05d}".           *)
(***************************************************************************)
EXTENDS Integers, Sequences, FiniteSets, TLC

VARIABLES
    \* ---- CentroidTracker (vehicle_tracker.py:41-48)
    next_object_id,     \* int
    objects,            \* OrderedDict id -> centroid, as a sequence of [id, centroid]
    disappeared,        \* dict id -> frames since the last match
    bboxes,             \* dict id -> bbox
    position_history,   \* dict id -> list of <<centroid, timestamp>>
    max_disappeared,    \* constructor argument
    max_distance,       \* constructor argument
    SCIPY_AVAILABLE,    \* module flag set at import time (vehicle_tracker.py:12-19)
    \* ---- TrafficDetector (cv_detector_realtime.py:166-227)
    frame_count,        \* frames handed to process_frame (the timestamp of a bare update call)
    MAX_VIOLATIONS,     \* class attribute (cv_detector_realtime.py:164)
    violations_captured,
    vehicle_states,     \* dict id -> state dict
    captured_plates,    \* set of plates
    \* ---- what the callers and the scene see
    violations,         \* the list returned by the last process_frame call
    emitted,            \* every record returned to the caller so far, in order
    raised,             \* process_frame ended with an exception (the run is over)
    evaluated,          \* the tracks the loop of the last process_frame call went through
    matched,            \* the pairs accepted by the last update call: {[id, col, dist]}
    veh,                \* scene: vehicle -> x of its bounding box, or Absent
    seen,               \* scene: the vehicles the detector reported in the last frame
    vtrack,             \* scene: vehicle -> track id its last detection was attached to
    noise,              \* scene: irregular vehicle events so far
    est,                \* a call of estimate_speed: its arguments and what it returned
    held,               \* a caller's reference to a list returned by update: [at, list]
    yolo_boxes          \* the boxes (x1, x2) the model returned for the last frame given to detect_vehicles

trackerVars == <<next_object_id, objects, disappeared, bboxes, position_history,
                 max_disappeared, max_distance, SCIPY_AVAILABLE>>
detectorVars == <<MAX_VIOLATIONS, violations_captured, vehicle_states, captured_plates,
                  violations, emitted, raised, evaluated>>
sceneVars == <<veh, seen, vtrack, noise>>
vars == <<trackerVars, detectorVars, frame_count, matched, sceneVars, yolo_boxes, held, est>>

(***************************************************************************)
(* Bounds of the model                                                     *)
(***************************************************************************)
Vehicles == {1, 2}          \* physical vehicles in the scene
MaxPos == 3                 \* bare update calls: bbox x ranges over 0..MaxPos
MaxCalls == 4               \* bare update calls per run
MaxFrames == 6              \* frames per run of the detector
MaxNoise == 1               \* irregular vehicle events per run of the detector
MaxCap == 2                 \* MAX_VIOLATIONS is 1..MaxCap (5 in the source)
MaxBoxCalls == 3            \* update calls per run of the tracker fed with model boxes
MaxHeldCalls == 3           \* update calls per run of the tracker whose caller keeps a returned list
MaxPx == 5                  \* estimate_speed alone: positions range over 0..MaxPx
MaxSessionFrames == 33      \* frames of a session long enough for a track to be deregistered
MaxQueueFrames == 12        \* frames per run of the decision engine fed with readings only
MaxJudged == 6              \* frames per run of the decision engine alone
TestMaxDisappeared == 1     \* CentroidTracker(max_disappeared=...) of the bare tracker runs
TestMaxDistance == 2        \* CentroidTracker(max_distance=...) of the bare tracker runs
Absent == -1
NotEstimated == -1          \* no speed returned yet
NoTimeDelta == -99          \* time_delta is None
NoId == -1
BoxW == 2                   \* width of every bounding box

(***************************************************************************)
(* Small helpers                                                           *)
(***************************************************************************)
Abs(x) == IF x < 0 THEN -x ELSE x

Range(s) == {s[i] : i \in DOMAIN s}

RECURSIVE SumSeq(_)
SumSeq(s) == IF s = <<>> THEN 0 ELSE Head(s) + SumSeq(Tail(s))

\* s[-n:]
LastN(s, n) == IF Len(s) <= n THEN s ELSE SubSeq(s, Len(s) - n + 1, Len(s))

\* the elements of a finite set of integers in increasing order
RECURSIVE Sorted(_)
Sorted(S) ==
    IF S = {} THEN <<>>
    ELSE LET m == CHOOSE x \in S : \A y \in S : x <= y
         IN <<m>> \o Sorted(S \ {m})

\* d[k] = v on a dict
DictSet(d, k, v) == [i \in DOMAIN d \cup {k} |-> IF i = k THEN v ELSE d[i]]

\* del d[k]
DictDel(d, k) == [i \in DOMAIN d \ {k} |-> d[i]]

EmptyDict == [i \in {} |-> 0]

(***************************************************************************)
(* CentroidTracker                                                         *)
(***************************************************************************)
HISTORY_CAP == 30

\* int(x + w / 2) for non-negative x, w
Centroid(bbox) == (2 * bbox[1] + bbox[2]) \div 2

\* dist.cdist / np.linalg.norm of two centroids on the line
Dist(a, b) == Abs(a - b)

ObjectIds(objs) == {objs[i].id : i \in DOMAIN objs}

\* self.objects[object_id] = centroid on the OrderedDict: an existing key keeps
\* its place, a new key goes to the end
ObjectsSet(objs, object_id, centroid) ==
    IF object_id \in ObjectIds(objs)
    THEN [i \in DOMAIN objs |->
            IF objs[i].id = object_id
            THEN [id |-> object_id, centroid |-> centroid] ELSE objs[i]]
    ELSE Append(objs, [id |-> object_id, centroid |-> centroid])

ObjectsDel(objs, object_id) ==
    LET keep(e) == e.id # object_id IN SelectSeq(objs, keep)

\* the tracker as one value
Tracker ==
    [next_object_id |-> next_object_id, objects |-> objects,
     disappeared |-> disappeared, bboxes |-> bboxes,
     position_history |-> position_history]

NextIdReused(n) == n

\* self.next_object_id += 1
NextId(n) == n + 1

register(tr, centroid, bbox, timestamp) ==
    LET object_id == tr.next_object_id IN
    [next_object_id |-> NextId(tr.next_object_id),
     objects |-> ObjectsSet(tr.objects, object_id, centroid),
     bboxes |-> DictSet(tr.bboxes, object_id, bbox),
     disappeared |-> DictSet(tr.disappeared, object_id, 0),
     position_history |->
        DictSet(tr.position_history, object_id, <<<<centroid, timestamp>>>>)]

deregister(tr, object_id) ==
    [next_object_id |-> tr.next_object_id,
     objects |-> ObjectsDel(tr.objects, object_id),
     disappeared |-> DictDel(tr.disappeared, object_id),
     bboxes |-> DictDel(tr.bboxes, object_id),
     position_history |-> DictDel(tr.position_history, object_id)]

ExpiredAtThreshold(n) == n >= max_disappeared

\* self.disappeared[object_id] > self.max_disappeared
Expired(n) == n > max_disappeared

\* self.disappeared[object_id] += 1, then deregister past the threshold
MarkDisappeared(tr, object_id) ==
    LET n == tr.disappeared[object_id] + 1
        bumped == [tr EXCEPT !.disappeared[object_id] = n]
    IN IF Expired(n) THEN deregister(bumped, object_id) ELSE bumped

RECURSIVE MarkAll(_, _)
MarkAll(tr, ids) ==
    IF ids = <<>> THEN tr
    ELSE MarkAll(MarkDisappeared(tr, Head(ids)), Tail(ids))

\* update, lines 80-85: no detections
UpdateEmpty(tr) == MarkAll(tr, Sorted(DOMAIN tr.disappeared))


\* lines 88-97: the centroid of every detection
InputCentroids(detections) ==
    [j \in DOMAIN detections |-> Centroid(detections[j])]

\* lines 109-117: D[row][col], rows are the existing objects in dict order
DistanceMatrix(objs, input_centroids) ==
    [i \in DOMAIN objs |->
        [j \in DOMAIN input_centroids |-> Dist(objs[i].centroid, input_centroids[j])]]

InjectiveMaps(A, B) ==
    {f \in [A -> B] : \A x, y \in A : x # y => f[x] # f[y]}

\* the complete one-to-one assignments of an n x m matrix, as sets of <<row, col>>
Assignments(n, m) ==
    IF n <= m
    THEN {{<<i, f[i]>> : i \in 1..n} : f \in InjectiveMaps(1..n, 1..m)}
    ELSE {{<<g[j], j>> : j \in 1..m} : g \in InjectiveMaps(1..m, 1..n)}

RECURSIVE TotalCost(_, _)
TotalCost(D, pairs) ==
    IF pairs = {} THEN 0
    ELSE LET p == CHOOSE q \in pairs : TRUE
         IN D[p[1]][p[2]] + TotalCost(D, pairs \ {p})

\* scipy.optimize.linear_sum_assignment(D): the assignments of minimum total
\* cost; which of several minima the solver returns is its own business
linear_sum_assignment(D) ==
    LET n == Len(D)
        m == Len(D[1])
        all == Assignments(n, m)
    IN {a \in all : \A b \in all : TotalCost(D, a) <= TotalCost(D, b)}

\* line 129: D_copy[min_idx] < self.max_distance
GreedyTakes(d) == d < max_distance

\* lines 124-133: the greedy fallback; used rows and columns are the cells set
\* to inf, np.argmin returns the first minimum in row-major order
RECURSIVE GreedyAssign(_, _, _, _)
GreedyAssign(D, used_rows, used_cols, k) ==
    LET free == {<<i, j>> \in (DOMAIN D \ used_rows) \X (DOMAIN D[1] \ used_cols) : TRUE}
    IN IF k = 0 \/ free = {} THEN {}
       ELSE LET min_idx == CHOOSE p \in free : \A q \in free :
                               \/ D[p[1]][p[2]] < D[q[1]][q[2]]
                               \/ /\ D[p[1]][p[2]] = D[q[1]][q[2]]
                                  /\ \/ p[1] < q[1]
                                     \/ p[1] = q[1] /\ p[2] <= q[2]
            IN IF GreedyTakes(D[min_idx[1]][min_idx[2]])
               THEN {min_idx} \cup
                    GreedyAssign(D, used_rows \cup {min_idx[1]},
                                 used_cols \cup {min_idx[2]}, k - 1)
               ELSE {}

Min(a, b) == IF a < b THEN a ELSE b

\* lines 120-133: the proposals zip(rows, cols) the matching loop may get
Proposals(D) ==
    IF SCIPY_AVAILABLE THEN linear_sum_assignment(D)
    ELSE {GreedyAssign(D, {}, {}, Min(Len(D), Len(D[1])))}

RejectsPairBelow(d) == d < max_distance

\* line 141: if D[row, col] > self.max_distance: continue
RejectsPair(d) == d > max_distance

MatchObjectKeepsOldest(tr, object_id, centroid, bbox, timestamp) ==
    [tr EXCEPT
        !.objects = ObjectsSet(tr.objects, object_id, centroid),
        !.bboxes = DictSet(tr.bboxes, object_id, bbox),
        !.disappeared = DictSet(tr.disappeared, object_id, 0),
        !.position_history[object_id] =
            SubSeq(Append(tr.position_history[object_id], <<centroid, timestamp>>), 1,
                   Min(Len(tr.position_history[object_id]) + 1, HISTORY_CAP))]

MatchObjectKeepsCounter(tr, object_id, centroid, bbox, timestamp) ==
    [tr EXCEPT
        !.objects = ObjectsSet(tr.objects, object_id, centroid),
        !.bboxes = DictSet(tr.bboxes, object_id, bbox),
        !.position_history[object_id] =
            LastN(Append(tr.position_history[object_id], <<centroid, timestamp>>),
                  HISTORY_CAP)]

\* lines 144-153: one accepted pair
MatchObject(tr, object_id, centroid, bbox, timestamp) ==
    [tr EXCEPT
        !.objects = ObjectsSet(tr.objects, object_id, centroid),
        !.bboxes = DictSet(tr.bboxes, object_id, bbox),
        !.disappeared = DictSet(tr.disappeared, object_id, 0),
        !.position_history[object_id] =
            LastN(Append(tr.position_history[object_id], <<centroid, timestamp>>),
                  HISTORY_CAP)]

RECURSIVE MatchAll(_, _, _, _, _, _)
MatchAll(tr, object_ids, pairs, input_centroids, detections, timestamp) ==
    IF pairs = <<>> THEN tr
    ELSE LET p == Head(pairs)
         IN MatchAll(MatchObject(tr, object_ids[p[1]], input_centroids[p[2]],
                                 detections[p[2]], timestamp),
                     object_ids, Tail(pairs), input_centroids, detections, timestamp)

RECURSIVE RegisterAll(_, _, _, _, _)
RegisterAll(tr, cols, input_centroids, detections, timestamp) ==
    IF cols = <<>> THEN tr
    ELSE RegisterAll(register(tr, input_centroids[Head(cols)], detections[Head(cols)],
                              timestamp),
                     Tail(cols), input_centroids, detections, timestamp)

\* the pairs of a proposal in the order of zip(rows, cols): by row
RECURSIVE PairSeq(_)
PairSeq(pairs) ==
    IF pairs = {} THEN <<>>
    ELSE LET p == CHOOSE q \in pairs : \A r \in pairs : q[1] <= r[1]
         IN <<p>> \o PairSeq(pairs \ {p})

\* the pairs of a proposal the matching loop accepts
Accepted(D, proposal) == {p \in proposal : ~RejectsPair(D[p[1]][p[2]])}

UpdateMatchDropsUnmatched(tr, detections, timestamp, proposal) ==
    LET input_centroids == InputCentroids(detections)
        object_ids == [i \in DOMAIN tr.objects |-> tr.objects[i].id]
        D == DistanceMatrix(tr.objects, input_centroids)
        accepted == Accepted(D, proposal)
        unused_rows == DOMAIN tr.objects \ {p[1] : p \in accepted}
        t1 == MatchAll(tr, object_ids, PairSeq(accepted), input_centroids,
                       detections, timestamp)
    IN MarkAll(t1, [k \in DOMAIN Sorted(unused_rows) |->
                       object_ids[Sorted(unused_rows)[k]]])

\* update, lines 87-171, for a non-empty detection list and one proposal of the
\* solver
UpdateMatch(tr, detections, timestamp, proposal) ==
    LET input_centroids == InputCentroids(detections)
        object_ids == [i \in DOMAIN tr.objects |-> tr.objects[i].id]
        D == DistanceMatrix(tr.objects, input_centroids)
        accepted == Accepted(D, proposal)
        used_rows == {p[1] : p \in accepted}
        used_cols == {p[2] : p \in accepted}
        unused_rows == DOMAIN tr.objects \ used_rows
        unused_cols == DOMAIN detections \ used_cols
        t1 == MatchAll(tr, object_ids, PairSeq(accepted), input_centroids,
                       detections, timestamp)
        t2 == MarkAll(t1, [k \in DOMAIN Sorted(unused_rows) |->
                              object_ids[Sorted(unused_rows)[k]]])
    IN RegisterAll(t2, Sorted(unused_cols), input_centroids, detections, timestamp)

\* the solver proposals update may act on (one for an empty list or registry)
UpdateProposals(tr, detections) ==
    IF Len(detections) = 0 \/ Len(tr.objects) = 0 THEN {{}}
    ELSE Proposals(DistanceMatrix(tr.objects, InputCentroids(detections)))

\* CentroidTracker.update
update(tr, detections, timestamp, proposal) ==
    IF Len(detections) = 0 THEN UpdateEmpty(tr)
    ELSE IF Len(tr.objects) = 0
    THEN RegisterAll(tr, [j \in DOMAIN detections |-> j],
                     InputCentroids(detections), detections, timestamp)
    ELSE UpdateMatch(tr, detections, timestamp, proposal)

\* the pairs the call accepted, as seen from outside: {[id, col, dist]}
MatchedPairs(tr, detections, proposal) ==
    IF Len(detections) = 0 \/ Len(tr.objects) = 0 THEN {}
    ELSE LET D == DistanceMatrix(tr.objects, InputCentroids(detections))
         IN {[id |-> tr.objects[p[1]].id, col |-> p[2], dist |-> D[p[1]][p[2]]] :
                p \in Accepted(D, proposal)}

\* _get_tracked_objects: every registered object, matched in this frame or not
TrackedObjects(tr) ==
    [i \in DOMAIN tr.objects |->
        [id |-> tr.objects[i].id,
         centroid |-> tr.objects[i].centroid,
         bbox |-> tr.bboxes[tr.objects[i].id],
         position_history |->
            IF tr.objects[i].id \in DOMAIN tr.position_history
            THEN tr.position_history[tr.objects[i].id] ELSE <<>>]]

(***************************************************************************)
(* The scene: which vehicle is where, and which track its detection got    *)
(***************************************************************************)
\* the vehicles detected in a frame, in the order the detector lists them
Present(pos) == Sorted({v \in Vehicles : pos[v] # Absent})

\* the detector's output for the frame: one bounding box per detected vehicle
Detections(pos) == [k \in DOMAIN Present(pos) |-> <<pos[Present(pos)[k]], BoxW>>]

\* the ids register hands out to the given columns, in order
RECURSIVE RegisteredIds(_, _)
RegisteredIds(start, cols) ==
    IF cols = <<>> THEN <<>>
    ELSE <<start>> \o RegisteredIds(NextId(start), Tail(cols))

\* the track id each detection column ends the call with
AssignedIds(tr, detections, proposal) ==
    LET pairs == MatchedPairs(tr, detections, proposal)
        unused_cols == Sorted(DOMAIN detections \ {p.col : p \in pairs})
        fresh == RegisteredIds(tr.next_object_id, unused_cols)
    IN [j \in DOMAIN detections |->
          IF \E p \in pairs : p.col = j
          THEN (CHOOSE p \in pairs : p.col = j).id
          ELSE fresh[CHOOSE k \in DOMAIN unused_cols : unused_cols[k] = j]]

\* the track each vehicle's detection was attached to
Attach(pos, assigned) ==
    [v \in Vehicles |->
        IF pos[v] = Absent THEN vtrack[v]
        ELSE assigned[CHOOSE k \in DOMAIN Present(pos) : Present(pos)[k] = v]]

(***************************************************************************)
(* A bare CentroidTracker driven by update calls                           *)
(***************************************************************************)
\* where a bare update call may see the vehicles: vehicle 1 anywhere on the
\* line, every other vehicle at one of its two ends, each detected or not, no
\* two vehicles in the same place
ScenePositions ==
    {pos \in [Vehicles -> {Absent} \cup 0..MaxPos] :
        /\ \A v \in Vehicles : v # 1 => pos[v] \in {Absent, 0, MaxPos}
        /\ \A u, v \in Vehicles : u # v /\ pos[u] # Absent => pos[u] # pos[v]}

InitTrackerState ==
    /\ next_object_id = 0
    /\ objects = <<>>
    /\ disappeared = EmptyDict
    /\ bboxes = EmptyDict
    /\ position_history = EmptyDict

InitDetectorState ==
    /\ frame_count = 0
    /\ evaluated = <<>>
    /\ violations_captured = 0
    /\ vehicle_states = EmptyDict
    /\ captured_plates = {}
    /\ violations = <<>>
    /\ emitted = <<>>
    /\ raised = FALSE

\* no call of estimate_speed made or asked for
NoCall == [previous_x |-> 0, current_x |-> 0, time_delta |-> NoTimeDelta,
           speed_mph |-> NotEstimated]

InitScene ==
    /\ matched = {}
    /\ veh = [v \in Vehicles |-> Absent]
    /\ seen = {}
    /\ vtrack = [v \in Vehicles |-> NoId]
    /\ noise = 0
    /\ yolo_boxes = <<>>
    /\ held = [at |-> 0, list |-> <<>>]
    /\ est = NoCall

InitTracker ==
    /\ InitTrackerState
    /\ MAX_VIOLATIONS = MaxCap
    /\ max_disappeared = TestMaxDisappeared
    /\ max_distance = TestMaxDistance
    /\ SCIPY_AVAILABLE \in BOOLEAN
    /\ InitDetectorState
    /\ InitScene

\* the assignments of the tracker's fields after a call
TrackerBecomes(tr) ==
    /\ next_object_id' = tr.next_object_id
    /\ objects' = tr.objects
    /\ disappeared' = tr.disappeared
    /\ bboxes' = tr.bboxes
    /\ position_history' = tr.position_history
    /\ UNCHANGED <<max_disappeared, max_distance, SCIPY_AVAILABLE>>

\* tracker.update(detections, timestamp), called with the call number as timestamp
TrackerUpdate ==
    /\ frame_count < MaxCalls
    /\ \E pos \in ScenePositions :
         LET detections == Detections(pos)
             timestamp == frame_count + 1
         IN \E proposal \in UpdateProposals(Tracker, detections) :
              /\ TrackerBecomes(update(Tracker, detections, timestamp, proposal))
              /\ matched' = MatchedPairs(Tracker, detections, proposal)
              /\ veh' = pos
              /\ seen' = {v \in Vehicles : pos[v] # Absent}
              /\ vtrack' = Attach(pos, AssignedIds(Tracker, detections, proposal))
    /\ frame_count' = frame_count + 1
    /\ UNCHANGED <<detectorVars, noise, yolo_boxes, held, est>>

NextTracker == TrackerUpdate

SpecTracker == InitTracker /\ [][NextTracker]_vars

(***************************************************************************)
(* A bare CentroidTracker fed with what detect_vehicles makes of the       *)
(* model's boxes                                                           *)
(***************************************************************************)
\* the frame is the line 0..FrameW
FrameW == MaxPos + BoxW

\* detect_vehicles: no list without a model; otherwise every box (x1, x2) the
\* model returns becomes the detection (x1, x2 - x1), none is left out
detect_vehicles(model, boxes) ==
    IF ~model THEN <<>>
    ELSE [k \in DOMAIN boxes |-> <<boxes[k][1], boxes[k][2] - boxes[k][1]>>]

\* boxes the model may return: one at each end of the frame, one of width 0
\* and one reaching over the right edge of the frame
ModelBoxes ==
    {<<0, BoxW>>, <<MaxPos, MaxPos + BoxW>>, <<1, 1>>, <<MaxPos + 1, MaxPos + 1 + BoxW>>}

\* what the model may return for a frame: up to two different boxes
BoxLists ==
    {<<>>} \cup {<<b>> : b \in ModelBoxes}
           \cup {<<p[1], p[2]>> : p \in {q \in ModelBoxes \X ModelBoxes : q[1] # q[2]}}

InitBoxes ==
    /\ InitTrackerState
    /\ MAX_VIOLATIONS = MaxCap
    /\ max_disappeared = TestMaxDisappeared
    /\ max_distance = TestMaxDistance
    /\ SCIPY_AVAILABLE \in BOOLEAN
    /\ InitDetectorState
    /\ InitScene

\* tracker.update(detect_vehicles(frame), timestamp) with a loaded model,
\* called with the call number as timestamp
UpdateWithBoxes ==
    /\ frame_count < MaxBoxCalls
    /\ \E boxes \in BoxLists :
         \E detections \in {detect_vehicles(TRUE, boxes)} :
           \E proposal \in UpdateProposals(Tracker, detections) :
              /\ TrackerBecomes(update(Tracker, detections, frame_count + 1, proposal))
              /\ matched' = MatchedPairs(Tracker, detections, proposal)
              /\ yolo_boxes' = boxes
    /\ frame_count' = frame_count + 1
    /\ UNCHANGED <<detectorVars, sceneVars, held, est>>

NextBoxes == UpdateWithBoxes

SpecBoxes == InitBoxes /\ [][NextBoxes]_vars

(***************************************************************************)
(* A bare CentroidTracker whose caller keeps a returned list              *)
(***************************************************************************)
\* _get_tracked_objects as the caller holds it: 'centroid' is a new tuple and
\* 'bbox' an immutable one, 'position_history' is the registry's own list
\* object (shared) and not a copy of it
TrackedObjectRefs(tr) ==
    [i \in DOMAIN tr.objects |->
        [id |-> tr.objects[i].id,
         centroid |-> tr.objects[i].centroid,
         bbox |-> tr.bboxes[tr.objects[i].id],
         position_history |-> tr.position_history[tr.objects[i].id],
         shared |-> TRUE]]

\* what a later update call does to a list object the caller still holds:
\* update, lines 150-153, appends to the registry's list in place and only
\* binds a new list when it cuts the history; deregister drops the
\* registry's reference and leaves the list as it is
HeldAfterUpdate(entry, tr, pairs, input_centroids, timestamp) ==
    IF ~entry.shared THEN entry
    ELSE IF \E p \in pairs : p.id = entry.id
    THEN LET p == CHOOSE q \in pairs : q.id = entry.id
             appended == Append(entry.position_history, <<input_centroids[p.col], timestamp>>)
         IN [entry EXCEPT !.position_history = appended,
                          !.shared = Len(appended) <= HISTORY_CAP]
    ELSE IF entry.id \in DOMAIN tr.disappeared /\ Expired(tr.disappeared[entry.id] + 1)
    THEN [entry EXCEPT !.shared = FALSE]
    ELSE entry

\* the changes a caller may make to a history it holds
HistoryEdits == {"pop", "clear"}

\* list.pop() and list.clear()
EditList(list, edit) ==
    IF edit = "pop" THEN SubSeq(list, 1, Len(list) - 1) ELSE <<>>

InitHeld == InitTracker

\* tracker.update(detections, timestamp); the caller keeps the returned list
UpdateHold ==
    /\ frame_count < MaxHeldCalls
    /\ \E pos \in ScenePositions :
         \E detections \in {Detections(pos)} :
           \E proposal \in UpdateProposals(Tracker, detections) :
             \E tr \in {update(Tracker, detections, frame_count + 1, proposal)} :
               /\ TrackerBecomes(tr)
               /\ matched' = MatchedPairs(Tracker, detections, proposal)
               /\ veh' = pos
               /\ seen' = {v \in Vehicles : pos[v] # Absent}
               /\ vtrack' = Attach(pos, AssignedIds(Tracker, detections, proposal))
               /\ held' = [at |-> frame_count + 1, list |-> TrackedObjectRefs(tr)]
    /\ frame_count' = frame_count + 1
    /\ UNCHANGED <<detectorVars, noise, yolo_boxes, est>>

\* tracker.update(detections, timestamp); the caller drops the returned list
\* and goes on holding the one an earlier call returned
UpdateLater ==
    /\ frame_count < MaxHeldCalls
    /\ held.at > 0
    /\ \E pos \in ScenePositions :
         \E detections \in {Detections(pos)} :
           \E proposal \in UpdateProposals(Tracker, detections) :
             \E pairs \in {MatchedPairs(Tracker, detections, proposal)} :
               /\ TrackerBecomes(update(Tracker, detections, frame_count + 1, proposal))
               /\ matched' = pairs
               /\ veh' = pos
               /\ seen' = {v \in Vehicles : pos[v] # Absent}
               /\ vtrack' = Attach(pos, AssignedIds(Tracker, detections, proposal))
               /\ held' = [held EXCEPT !.list =
                             [k \in DOMAIN held.list |->
                                 HeldAfterUpdate(held.list[k], Tracker, pairs,
                                                 InputCentroids(detections), frame_count + 1)]]
    /\ frame_count' = frame_count + 1
    /\ UNCHANGED <<detectorVars, noise, yolo_boxes, est>>

\* the caller changes the position history of an entry of the list it holds:
\* entry['position_history'].pop() or .clear()
CallerEditsHistory ==
    /\ \E k \in DOMAIN held.list : \E edit \in HistoryEdits :
         /\ held.list[k].position_history # <<>>
         /\ held' = [held EXCEPT !.list[k].position_history = EditList(@, edit)]
         /\ position_history' =
               IF held.list[k].shared
               THEN [position_history EXCEPT ![held.list[k].id] = EditList(@, edit)]
               ELSE position_history
    /\ UNCHANGED <<next_object_id, objects, disappeared, bboxes, max_disappeared,
                   max_distance, SCIPY_AVAILABLE, detectorVars, frame_count, matched,
                   sceneVars, yolo_boxes, est>>

NextHeld == UpdateHold \/ UpdateLater \/ CallerEditsHistory

SpecHeld == InitHeld /\ [][NextHeld]_vars

(***************************************************************************)
(* SpeedEstimator                                                          *)
(***************************************************************************)
MetersPerPixelE2 == 5       \* meters_per_pixel 0.05, in 1e-2 m
Fps == 30
MpsToMphE5 == 223694        \* 2.23694, in 1e-5
MIN_MOVEMENT == 3           \* min_movement=3.0
WINDOW == 5                 \* min(5, len(position_history))

\* mph, in 1e-5, of one pixel per frame: meters_per_pixel * fps * 2.23694
MphPerPixelFrame == (MetersPerPixelE2 * Fps * MpsToMphE5) \div 100

\* whole mph in the unit of the model
Mph(n) == n * 100000

\* estimate_speed(previous_xy, current_xy, time_delta), time_delta in frames
\* (1/fps is one frame)
estimate_speed_floor_in(previous_x, current_x, time_delta) ==
    LET pixel_distance == Dist(current_x, previous_x)
        frames == IF time_delta = NoTimeDelta \/ time_delta <= 0 THEN 1 ELSE time_delta
    IN IF pixel_distance <= MIN_MOVEMENT THEN 0
       ELSE (pixel_distance * MphPerPixelFrame) \div frames

estimate_speed(previous_x, current_x, time_delta) ==
    LET pixel_distance == Dist(current_x, previous_x)
        frames == IF time_delta = NoTimeDelta \/ time_delta <= 0 THEN 1 ELSE time_delta
    IN IF pixel_distance < MIN_MOVEMENT THEN 0
       ELSE (pixel_distance * MphPerPixelFrame) \div frames

RECURSIVE Insert(_, _)
Insert(x, s) ==
    IF s = <<>> THEN <<x>>
    ELSE IF x <= Head(s) THEN <<x>> \o s
    ELSE <<Head(s)>> \o Insert(x, Tail(s))

RECURSIVE SortedSeq(_)
SortedSeq(s) == IF s = <<>> THEN <<>> ELSE Insert(Head(s), SortedSeq(Tail(s)))

\* np.median of a non-empty list
Median(s) ==
    LET o == SortedSeq(s)
        n == Len(o)
    IN IF n % 2 = 1 THEN o[(n + 1) \div 2]
       ELSE (o[n \div 2] + o[n \div 2 + 1]) \div 2

\* np.mean of a non-empty list
Mean(s) == SumSeq(s) \div Len(s)

\* lines 136-150: one speed per consecutive pair with increasing timestamps
RECURSIVE PairSpeeds(_, _)
PairSpeeds(recent, i) ==
    IF i > Len(recent) THEN <<>>
    ELSE LET time_delta == recent[i][2] - recent[i - 1][2]
         IN (IF time_delta <= 0 THEN <<>>
             ELSE <<estimate_speed(recent[i - 1][1], recent[i][1], time_delta)>>)
            \o PairSpeeds(recent, i + 1)

estimate_from_history(history) ==
    IF Len(history) < 2 THEN 0
    ELSE LET speeds == PairSpeeds(LastN(history, WINDOW), 2)
         IN IF speeds = <<>> THEN 0 ELSE Median(speeds)

\* the time_delta arguments of a call: none, negative, zero, one and two frames
TimeDeltas == {NoTimeDelta, -1, 0, 1, 2}

\* a SpeedEstimator as the detector builds it, about to be called with two
\* positions on the line and a time_delta
InitEstimator ==
    /\ InitTrackerState
    /\ MAX_VIOLATIONS = MaxCap
    /\ max_disappeared = TestMaxDisappeared
    /\ max_distance = TestMaxDistance
    /\ SCIPY_AVAILABLE = TRUE
    /\ InitDetectorState
    /\ matched = {}
    /\ veh = [v \in Vehicles |-> Absent]
    /\ seen = {}
    /\ vtrack = [v \in Vehicles |-> NoId]
    /\ noise = 0
    /\ yolo_boxes = <<>>
    /\ held = [at |-> 0, list |-> <<>>]
    /\ est \in [previous_x : 0..MaxPx, current_x : 0..MaxPx, time_delta : TimeDeltas,
                speed_mph : {NotEstimated}]

\* speed_estimator.estimate_speed(previous_xy, current_xy, time_delta)
EstimateSpeed ==
    /\ est.speed_mph = NotEstimated
    /\ est' = [est EXCEPT !.speed_mph =
                  estimate_speed(est.previous_x, est.current_x, est.time_delta)]
    /\ UNCHANGED <<trackerVars, detectorVars, frame_count, matched, sceneVars,
                   yolo_boxes, held>>

NextEstimator == EstimateSpeed

SpecEstimator == InitEstimator /\ [][NextEstimator]_vars

(***************************************************************************)
(* TrafficDetector                                                         *)
(***************************************************************************)
SPEED_LIMIT == 30           \* config.get('speed_limit_mph', 30)
VIOLATION_MIN_OVER == 5
DetectorMaxDisappeared == 30
DetectorMaxDistance == 150
MIN_HISTORY == 3            \* calculate_speed: len(history) < 3
SPEED_QUEUE_CAP == 10
OCR_MAX_ATTEMPTS == 5
OCR_MIN_CONF == 30          \* confidence > 0.3, in percent
FALLBACK_MIN_ATTEMPTS == 3
MIN_READINGS == 3

None == <<"None", 0>>

\* what plate_ocr.read_plate_multi_position can hand back for one bounding
\* box: nothing, a text at the confidence floor, a confident text; fault tells
\* whether the engine was there and returned at all
NoText == 0
OcrReads ==
    {[text |-> NoText, conf |-> 0, fault |-> "none"],
     [text |-> 1, conf |-> OCR_MIN_CONF, fault |-> "none"],
     [text |-> 1, conf |-> 90, fault |-> "none"]}

\* the engine is missing (lines 254-255) or its call raises (lines 268-270)
OcrFaults ==
    {[text |-> NoText, conf |-> 0, fault |-> "unavailable"],
     [text |-> NoText, conf |-> 0, fault |-> "raises"]}

\* plate_ocr.format_for_display: the text with its separator
format_for_display(text) == <<"ocr", text>>

\* f"NY{vehicle_id:05d}"
FallbackPlate(vehicle_id) == <<"NY", vehicle_id>>

\* read_license_plate, given what the OCR engine does
read_license_plate(read) ==
    IF read.fault = "unavailable" THEN [text |-> None, conf |-> 0]
    ELSE IF read.fault = "raises" THEN [text |-> None, conf |-> 0]
    ELSE IF read.text # NoText /\ read.conf > OCR_MIN_CONF
    THEN [text |-> format_for_display(read.text), conf |-> read.conf]
    ELSE [text |-> None, conf |-> 0]

\* calculate_speed
calculate_speed(tr, vehicle_id) ==
    LET history == IF vehicle_id \in DOMAIN tr.position_history
                   THEN tr.position_history[vehicle_id] ELSE <<>>
    IN IF Len(history) < MIN_HISTORY THEN 0
       ELSE estimate_from_history(history)

\* get_vehicle_state: the state of a vehicle seen for the first time
NewVehicleState ==
    [plate |-> None, plate_confidence |-> 0, speeds |-> <<>>, avg_speed |-> 0,
     has_violated |-> FALSE, color |-> "green", ocr_attempts |-> 0]

get_vehicle_state(vs, vehicle_id) ==
    IF vehicle_id \in DOMAIN vs THEN vs[vehicle_id] ELSE NewVehicleState

\* line 341: if speed_mph > 0
RecordsReading(speed_mph) == speed_mph > 0

PushSpeedEvictsNewest(state, speed_mph) ==
    IF RecordsReading(speed_mph)
    THEN LET speeds == SubSeq(Append(state.speeds, speed_mph), 1,
                              Min(Len(state.speeds) + 1, SPEED_QUEUE_CAP))
         IN [state EXCEPT !.speeds = speeds, !.avg_speed = Mean(speeds)]
    ELSE state

\* lines 340-346
PushSpeed(state, speed_mph) ==
    IF RecordsReading(speed_mph)
    THEN LET speeds == LastN(Append(state.speeds, speed_mph), SPEED_QUEUE_CAP)
         IN [state EXCEPT !.speeds = speeds, !.avg_speed = Mean(speeds)]
    ELSE state

TryOcrCountsFailures(state, read) ==
    IF state.plate = None /\ state.ocr_attempts < OCR_MAX_ATTEMPTS
    THEN LET r == read_license_plate(read)
         IN [state EXCEPT
                !.ocr_attempts = IF r.text # None THEN @ ELSE @ + 1,
                !.plate = IF r.text # None THEN r.text ELSE @,
                !.plate_confidence = IF r.text # None THEN r.conf ELSE @]
    ELSE state

TryOcrWhileAttemptsLeft(state, read) ==
    IF state.ocr_attempts < OCR_MAX_ATTEMPTS
    THEN LET r == read_license_plate(read)
         IN [state EXCEPT
                !.ocr_attempts = @ + 1,
                !.plate = IF r.text # None THEN r.text ELSE @,
                !.plate_confidence = IF r.text # None THEN r.conf ELSE @]
    ELSE state

\* lines 348-356
TryOcr(state, read) ==
    IF state.plate = None /\ state.ocr_attempts < OCR_MAX_ATTEMPTS
    THEN LET r == read_license_plate(read)
         IN [state EXCEPT
                !.ocr_attempts = @ + 1,
                !.plate = IF r.text # None THEN r.text ELSE @,
                !.plate_confidence = IF r.text # None THEN r.conf ELSE @]
    ELSE state

BandLeavesBoundaryOut(speed_over) ==
    IF speed_over <= 0 THEN "green"
    ELSE IF speed_over <= Mph(VIOLATION_MIN_OVER) THEN "yellow"
    ELSE "red"

\* lines 361-366
Band(speed_over) ==
    IF speed_over <= 0 THEN "green"
    ELSE IF speed_over < Mph(VIOLATION_MIN_OVER) THEN "yellow"
    ELSE "red"

pick_violation_code_open(mph_over) ==
    IF mph_over < Mph(10) THEN <<"1180A", 2>>
    ELSE IF mph_over < Mph(20) THEN <<"1180B", 3>>
    ELSE IF mph_over < Mph(30) THEN <<"1180C", 5>>
    ELSE <<"1180D", 8>>

\* pick_violation_code, lines 139-151
pick_violation_code(mph_over) ==
    IF mph_over <= Mph(10) THEN <<"1180A", 2>>
    ELSE IF mph_over <= Mph(20) THEN <<"1180B", 3>>
    ELSE IF mph_over <= Mph(30) THEN <<"1180C", 5>>
    ELSE <<"1180D", 8>>

\* round(x, 1)
Round1(x) == ((x + 5000) \div 10000) * 10000

\* line 372: state['ocr_attempts'] >= 3
FallbackDue(ocr_attempts) == ocr_attempts >= FALLBACK_MIN_ATTEMPTS

\* lines 369-377, in the red band
PinFallback(state, vehicle_id) ==
    IF state.plate = None /\ FallbackDue(state.ocr_attempts)
    THEN [state EXCEPT !.plate = FallbackPlate(vehicle_id), !.plate_confidence = 0]
    ELSE state

NeverCaptured(plate, captured) == FALSE

\* line 381: plate not in self.captured_plates, negated
AlreadyCaptured(plate, captured) == plate \in captured

\* line 383: len(state['speeds']) >= 3
EnoughReadings(speeds) == Len(speeds) >= MIN_READINGS

\* line 380: not state['has_violated'], negated
Latched(has_violated) == has_violated

\* lines 379-383
Qualifies(state, captured) ==
    /\ state.plate # None
    /\ ~Latched(state.has_violated)
    /\ ~AlreadyCaptured(state.plate, captured)
    /\ state.avg_speed > 0
    /\ EnoughReadings(state.speeds)

CapNever(n) == FALSE

\* self.violations_captured >= self.MAX_VIOLATIONS
CapReached(n) == n >= MAX_VIOLATIONS

\* lines 390-400
ViolationRecordCodeOfSpeed(vehicle_id, state, speed_over, bbox) ==
    [vehicle_id |-> vehicle_id,
     plate |-> state.plate,
     plate_confidence |-> state.plate_confidence,
     speed_mph |-> Round1(state.avg_speed),
     speed_limit |-> SPEED_LIMIT,
     mph_over |-> Round1(speed_over),
     violation_code |-> pick_violation_code(state.avg_speed)[1],
     points |-> pick_violation_code(state.avg_speed)[2],
     bbox |-> bbox]

ViolationRecord(vehicle_id, state, speed_over, bbox) ==
    [vehicle_id |-> vehicle_id,
     plate |-> state.plate,
     plate_confidence |-> state.plate_confidence,
     speed_mph |-> Round1(state.avg_speed),
     speed_limit |-> SPEED_LIMIT,
     mph_over |-> Round1(speed_over),
     violation_code |-> pick_violation_code(speed_over)[1],
     points |-> pick_violation_code(speed_over)[2],
     bbox |-> bbox]

\* what the loop did with one track: its state before (old) and after (new),
\* the frame's raw speed, the capture set and the counter it was judged
\* against, whether the emission branch (lines 385-407) was entered, and what
\* became of the OCR engine's call
Evaluation(acc, track, s0, speed_mph, s4, emit, read) ==
    [id |-> track.id, speed_mph |-> speed_mph, old |-> s0, ocr |-> read.fault,
     new |-> [s4 EXCEPT !.has_violated = @ \/ emit],
     captured |-> acc.cap, count |-> acc.cnt, emit |-> emit]

\* lines 379-414 for one track whose state is s4 after the speed, OCR, colour
\* and fallback steps. acc carries the detector's fields through the loop: vs
\* (vehicle_states), cap (captured_plates), cnt (violations_captured), out
\* (violations), shots (calls of save_screenshot so far), log (the tracks gone
\* through) and status: "run", "break" (line 414) or "raise" (save_screenshot
\* raised, nothing catches it). fail_at is the call of save_screenshot that
\* raises in this frame, 0 for none. send_violation_to_backend (lines 552-579)
\* catches what its request raises and writes nothing the loop reads, so its
\* two outcomes are one here.
Decide(acc, track, s0, speed_mph, s4, read, fail_at) ==
    IF ~(s4.color = "red" /\ Qualifies(s4, acc.cap))
    THEN [acc EXCEPT
             !.vs = DictSet(acc.vs, track.id, s4),
             !.log = Append(@, Evaluation(acc, track, s0, speed_mph, s4, FALSE, read))]
    ELSE IF fail_at = acc.shots + 1
    THEN [acc EXCEPT
             !.vs = DictSet(acc.vs, track.id, [s4 EXCEPT !.has_violated = TRUE]),
             !.log = Append(@, Evaluation(acc, track, s0, speed_mph, s4, TRUE, read)),
             !.cap = @ \cup {s4.plate}, !.shots = @ + 1, !.status = "raise"]
    ELSE [acc EXCEPT
             !.vs = DictSet(acc.vs, track.id, [s4 EXCEPT !.has_violated = TRUE]),
             !.log = Append(@, Evaluation(acc, track, s0, speed_mph, s4, TRUE, read)),
             !.cap = @ \cup {s4.plate}, !.shots = @ + 1,
             !.out = Append(@, ViolationRecord(track.id, s4,
                                               s4.avg_speed - Mph(SPEED_LIMIT),
                                               track.bbox)),
             !.cnt = @ + 1,
             !.status = IF CapReached(acc.cnt + 1) THEN "break" ELSE "run"]

\* lines 361-377: the colour of the band, and the fallback plate in the red band
Colour(s2, vehicle_id) ==
    IF Band(s2.avg_speed - Mph(SPEED_LIMIT)) = "red"
    THEN PinFallback([s2 EXCEPT !.color = "red"], vehicle_id)
    ELSE [s2 EXCEPT !.color = Band(s2.avg_speed - Mph(SPEED_LIMIT))]

\* lines 340-414: the body of the loop for one track, from the raw speed of
\* the frame on (every step is computed once, as the one element of a set)
Judge(acc, track, speed_mph, read, fail_at) ==
    CHOOSE r \in
        {Decide(acc, track, s0, speed_mph, Colour(TryOcr(s1, read), track.id), read,
                fail_at) :
            s0 \in {get_vehicle_state(acc.vs, track.id)},
            s1 \in {PushSpeed(get_vehicle_state(acc.vs, track.id), speed_mph)}} : TRUE

\* lines 333-414: the body of the loop for one track
EvalTrack(acc, tr, track, read, fail_at) ==
    CHOOSE r \in
        {Judge(acc, track, speed_mph, read, fail_at) :
            speed_mph \in {calculate_speed(tr, track.id)}} : TRUE

\* for track in tracked
RECURSIVE EvalTracks(_, _, _, _, _)
EvalTracks(acc, tr, tracked, reads, fail_at) ==
    IF tracked = <<>> \/ acc.status # "run" THEN acc
    ELSE CHOOSE r \in
           {EvalTracks(a, tr, Tail(tracked), reads, fail_at) :
               a \in {EvalTrack(acc, tr, Head(tracked), reads[Head(tracked).id],
                                fail_at)}} : TRUE

\* the tracks of the frame that will ask the OCR engine for a read
WantsOcr(tr) ==
    {id \in ObjectIds(tr.objects) :
        LET s == get_vehicle_state(vehicle_states, id)
        IN s.plate = None /\ s.ocr_attempts < OCR_MAX_ATTEMPTS}

NoRead == [text |-> NoText, conf |-> 0, fault |-> "none"]

\* what the OCR engine reads for every track of the frame
FrameReads(tr) ==
    {[id \in ObjectIds(tr.objects) |-> IF id \in WantsOcr(tr) THEN f[id] ELSE NoRead] :
        f \in [WantsOcr(tr) -> OcrReads]}

(***************************************************************************)
(* The scene in front of a TrafficDetector                                 *)
(***************************************************************************)
\* pixels per frame of a vehicle at steady, at slow and at no speed
StepOf == [steady |-> 11, hidden |-> 11, slow |-> 10, stop |-> 0]

\* where a vehicle enters the picture
EntryX(v) == 400 * (v - 1)

Irregular == {"hidden", "slow", "stop"}

\* what the vehicles do in one frame: stay out or enter, then drive on
\* steadily; the irregular events (driving on undetected, slowing, stopping)
\* are limited to MaxNoise per run; the run starts as vehicle 1 enters
SceneMoves ==
    {m \in [Vehicles -> {"out", "enter", "steady", "hidden", "slow", "stop"}] :
        /\ \A v \in Vehicles : (veh[v] = Absent) <=> (m[v] \in {"out", "enter"})
        /\ frame_count = 0 => m[1] = "enter"
        /\ noise + Cardinality({v \in Vehicles : m[v] \in Irregular}) <= MaxNoise}

MovedScene(m) ==
    [v \in Vehicles |->
        IF m[v] \in {"out", "gone"} THEN Absent
        ELSE IF m[v] = "enter" THEN EntryX(v)
        ELSE veh[v] + StepOf[m[v]]]

SeenScene(m) == {v \in Vehicles : m[v] \notin {"out", "hidden", "gone"}}

\* the positions the detector reports
Reported(m) == [v \in Vehicles |-> IF v \in SeenScene(m) THEN MovedScene(m)[v] ELSE Absent]

SceneBecomes(m) ==
    /\ veh' = MovedScene(m)
    /\ seen' = SeenScene(m)
    /\ noise' = noise + Cardinality({v \in Vehicles : m[v] \in Irregular})
    /\ UNCHANGED <<yolo_boxes, held, est>>

(***************************************************************************)
(* TrafficDetector.process_frame                                           *)
(***************************************************************************)
Init ==
    /\ InitTrackerState
    /\ max_disappeared = DetectorMaxDisappeared
    /\ max_distance = DetectorMaxDistance
    /\ SCIPY_AVAILABLE \in BOOLEAN
    /\ MAX_VIOLATIONS \in 1..MaxCap
    /\ InitDetectorState
    /\ InitScene

\* draw_overlay: get_vehicle_state creates the state of every track it draws
draw_overlay(vs, tracked) ==
    [id \in DOMAIN vs \cup {tracked[i].id : i \in DOMAIN tracked} |->
        get_vehicle_state(vs, id)]

\* lines 323-419 for one frame with detections: the tracker after update and
\* the detector's fields after the loop (and after draw_overlay, when the loop
\* ends without an exception)
RunFrame(tr, reads, fail_at) ==
    CHOOSE r \in
        {IF acc.status = "raise" THEN acc
         ELSE [acc EXCEPT !.vs = draw_overlay(acc.vs, TrackedObjects(tr))] :
            acc \in {EvalTracks([vs |-> vehicle_states, cap |-> captured_plates,
                                 cnt |-> violations_captured, out |-> <<>>,
                                 shots |-> 0, log |-> <<>>, status |-> "run"],
                                tr, TrackedObjects(tr), reads, fail_at)}} : TRUE

DetectorBecomes(acc) ==
    /\ vehicle_states' = acc.vs
    /\ captured_plates' = acc.cap
    /\ violations_captured' = acc.cnt
    /\ evaluated' = acc.log
    /\ UNCHANGED MAX_VIOLATIONS

\* process_frame, lines 313-315: the session cap was reached earlier
ProcessFrameCapReached ==
    /\ ~raised
    /\ frame_count < MaxFrames
    /\ CapReached(violations_captured)
    /\ frame_count' = frame_count + 1
    /\ violations' = <<>>
    /\ evaluated' = <<>>
    /\ \E m \in SceneMoves : SceneBecomes(m)
    /\ UNCHANGED <<trackerVars, MAX_VIOLATIONS, violations_captured, vehicle_states,
                   captured_plates, emitted, raised, matched, vtrack>>

\* process_frame, lines 317-321: the detector reports nothing
ProcessFrameNoDetections ==
    /\ ~raised
    /\ frame_count < MaxFrames
    /\ ~CapReached(violations_captured)
    /\ frame_count' = frame_count + 1
    /\ violations' = <<>>
    /\ evaluated' = <<>>
    /\ \E m \in SceneMoves : SeenScene(m) = {} /\ SceneBecomes(m)
    /\ UNCHANGED <<trackerVars, MAX_VIOLATIONS, violations_captured, vehicle_states,
                   captured_plates, emitted, raised, matched, vtrack>>

\* process_frame, lines 323-419: tracks evaluated, the violations returned
ProcessFrameTracked ==
    /\ ~raised
    /\ frame_count < MaxFrames
    /\ ~CapReached(violations_captured)
    /\ frame_count' = frame_count + 1
    /\ \E m \in SceneMoves :
         /\ SeenScene(m) # {}
         /\ \E detections \in {Detections(Reported(m))} :
            \E proposal \in UpdateProposals(Tracker, detections) :
            \E tr \in {update(Tracker, detections, frame_count + 1, proposal)} :
              /\ TrackerBecomes(tr)
              /\ matched' = MatchedPairs(Tracker, detections, proposal)
              /\ vtrack' = Attach(Reported(m), AssignedIds(Tracker, detections, proposal))
              /\ SceneBecomes(m)
              /\ \E reads \in FrameReads(tr) :
                 \E acc \in {RunFrame(tr, reads, 0)} :
                    /\ DetectorBecomes(acc)
                    /\ violations' = acc.out
                    /\ emitted' = emitted \o acc.out
    /\ UNCHANGED raised

\* process_frame, lines 323-403: save_screenshot raises for a qualifying
\* track; nothing catches it, neither here nor in process_camera_video
ProcessFrameRaises ==
    /\ ~raised
    /\ frame_count < MaxFrames
    /\ ~CapReached(violations_captured)
    /\ \E id \in DOMAIN vehicle_states :
          Len(vehicle_states[id].speeds) + 1 >= MIN_READINGS
    /\ frame_count' = frame_count + 1
    /\ \E m \in SceneMoves :
         /\ SeenScene(m) # {}
         /\ \E detections \in {Detections(Reported(m))} :
            \E proposal \in UpdateProposals(Tracker, detections) :
            \E tr \in {update(Tracker, detections, frame_count + 1, proposal)} :
              /\ \E reads \in FrameReads(tr) :
                 \E shots \in {RunFrame(tr, reads, 0).shots} :
                 \E fail_at \in 1..shots :
                    DetectorBecomes(RunFrame(tr, reads, fail_at))
              /\ TrackerBecomes(tr)
              /\ matched' = MatchedPairs(Tracker, detections, proposal)
              /\ vtrack' = Attach(Reported(m), AssignedIds(Tracker, detections, proposal))
              /\ SceneBecomes(m)
    /\ raised' = TRUE
    /\ violations' = <<>>
    /\ UNCHANGED emitted

Next ==
    \/ ProcessFrameCapReached
    \/ ProcessFrameNoDetections
    \/ ProcessFrameTracked
    \/ ProcessFrameRaises

Spec == Init /\ [][Next]_vars

(***************************************************************************)
(* A long session of a TrafficDetector: vehicle 1 is in the picture for    *)
(* one frame, another vehicle drives through steadily later on             *)
(***************************************************************************)
\* vehicle 1 enters in the first frame and is gone from the second on; every
\* other vehicle stays out or enters, then drives on steadily
SessionMoves ==
    {m \in [Vehicles -> {"out", "enter", "steady", "gone"}] :
        /\ m[1] = IF frame_count = 0 THEN "enter" ELSE "gone"
        /\ \A v \in Vehicles \ {1} :
              IF veh[v] = Absent THEN m[v] \in {"out", "enter"} ELSE m[v] = "steady"}

\* process_frame, lines 313-315: the session cap was reached earlier
SessionFrameCapReached ==
    /\ frame_count < MaxSessionFrames
    /\ CapReached(violations_captured)
    /\ frame_count' = frame_count + 1
    /\ violations' = <<>>
    /\ evaluated' = <<>>
    /\ \E m \in SessionMoves : SceneBecomes(m)
    /\ UNCHANGED <<trackerVars, MAX_VIOLATIONS, violations_captured, vehicle_states,
                   captured_plates, emitted, raised, matched, vtrack>>

\* process_frame, lines 317-321: the detector reports nothing
SessionFrameNoDetections ==
    /\ frame_count < MaxSessionFrames
    /\ ~CapReached(violations_captured)
    /\ frame_count' = frame_count + 1
    /\ violations' = <<>>
    /\ evaluated' = <<>>
    /\ \E m \in SessionMoves : SeenScene(m) = {} /\ SceneBecomes(m)
    /\ UNCHANGED <<trackerVars, MAX_VIOLATIONS, violations_captured, vehicle_states,
                   captured_plates, emitted, raised, matched, vtrack>>

\* process_frame, lines 323-419: tracks evaluated, the violations returned
SessionFrameTracked ==
    /\ frame_count < MaxSessionFrames
    /\ ~CapReached(violations_captured)
    /\ frame_count' = frame_count + 1
    /\ \E m \in SessionMoves :
         /\ SeenScene(m) # {}
         /\ \E detections \in {Detections(Reported(m))} :
            \E proposal \in UpdateProposals(Tracker, detections) :
            \E tr \in {update(Tracker, detections, frame_count + 1, proposal)} :
              /\ TrackerBecomes(tr)
              /\ matched' = MatchedPairs(Tracker, detections, proposal)
              /\ vtrack' = Attach(Reported(m), AssignedIds(Tracker, detections, proposal))
              /\ SceneBecomes(m)
              /\ \E reads \in FrameReads(tr) :
                 \E acc \in {RunFrame(tr, reads, 0)} :
                    /\ DetectorBecomes(acc)
                    /\ violations' = acc.out
                    /\ emitted' = emitted \o acc.out
    /\ UNCHANGED raised

NextSession ==
    \/ SessionFrameCapReached
    \/ SessionFrameNoDetections
    \/ SessionFrameTracked

SpecSession == Init /\ [][NextSession]_vars

(***************************************************************************)
(* The decision engine alone: process_frame with the tracker and the speed *)
(* estimator replaced by what they hand the loop, one track and the raw    *)
(* speed of the frame                                                      *)
(***************************************************************************)
\* the raw speeds calculate_speed may return, in whole mph
SpeedInputs == {Mph(n) : n \in {0, 30, 35, 40, 70}}

\* the one track of the tracked list
EngineTrack == [id |-> 0, centroid |-> Centroid(<<0, BoxW>>), bbox |-> <<0, BoxW>>]

\* what the OCR engine does in a frame: when it is asked, the reads of
\* OcrReads, its faults or another text at a higher confidence; when it is not
\* asked, what it would have read
BetterRead == [text |-> 2, conf |-> 95, fault |-> "none"]

EngineReads ==
    IF /\ get_vehicle_state(vehicle_states, EngineTrack.id).plate = None
       /\ get_vehicle_state(vehicle_states, EngineTrack.id).ocr_attempts
              < OCR_MAX_ATTEMPTS
    THEN OcrReads \cup OcrFaults \cup {BetterRead}
    ELSE {NoRead, BetterRead}

InitEngine ==
    /\ InitTrackerState
    /\ max_disappeared = DetectorMaxDisappeared
    /\ max_distance = DetectorMaxDistance
    /\ SCIPY_AVAILABLE = TRUE
    /\ MAX_VIOLATIONS = MaxCap
    /\ InitDetectorState
    /\ InitScene

\* process_frame, lines 332-419, for a tracked list of one track
JudgeFrame ==
    /\ frame_count < MaxJudged
    /\ ~CapReached(violations_captured)
    /\ frame_count' = frame_count + 1
    /\ \E speed_mph \in SpeedInputs :
       \E read \in EngineReads :
       \E acc \in {Judge([vs |-> vehicle_states, cap |-> captured_plates,
                          cnt |-> violations_captured, out |-> <<>>,
                          shots |-> 0, log |-> <<>>, status |-> "run"],
                         EngineTrack, speed_mph, read, 0)} :
          /\ DetectorBecomes([acc EXCEPT !.vs = draw_overlay(acc.vs, <<EngineTrack>>)])
          /\ violations' = acc.out
          /\ emitted' = emitted \o acc.out
    /\ UNCHANGED <<trackerVars, raised, matched, sceneVars, yolo_boxes, held, est>>

NextEngine == JudgeFrame

SpecEngine == InitEngine /\ [][NextEngine]_vars

(***************************************************************************)
(* The decision engine of process_frame over a longer run: one track, the  *)
(* plate reader reading nothing, the raw speed of each frame drawn         *)
(***************************************************************************)
\* raw speeds calculate_speed may return: none, and two over the limit
QueueSpeeds == {Mph(n) : n \in {0, 35, 40}}

\* the body of the loop of process_frame (lines 332-414) for the one track
QueueFrame ==
    /\ frame_count < MaxQueueFrames
    /\ ~CapReached(violations_captured)
    /\ frame_count' = frame_count + 1
    /\ \E speed_mph \in QueueSpeeds :
       \E acc \in {Judge([vs |-> vehicle_states, cap |-> captured_plates,
                          cnt |-> violations_captured, out |-> <<>>,
                          shots |-> 0, log |-> <<>>, status |-> "run"],
                         EngineTrack, speed_mph, NoRead, 0)} :
          /\ DetectorBecomes([acc EXCEPT !.vs = draw_overlay(acc.vs, <<EngineTrack>>)])
          /\ violations' = acc.out
          /\ emitted' = emitted \o acc.out
    /\ UNCHANGED <<trackerVars, raised, matched, sceneVars, yolo_boxes, held, est>>

NextQueue == QueueFrame

SpecQueue == InitEngine /\ [][NextQueue]_vars

(***************************************************************************)
(* Claims about TrafficDetector.process_frame, checked under Spec          *)
(***************************************************************************)
\* the records of the last call that belong to a track
RecordsOf(id) == {i \in DOMAIN violations : violations[i].vehicle_id = id}

\* C1: no plate appears in more than one record emitted in the session, and a
\* track judged while its plate is already in the capture set gets no record.
C1_PlateInAtMostOneRecord ==
    /\ \A i, j \in DOMAIN emitted : i # j => emitted[i].plate # emitted[j].plate
    /\ \A k \in DOMAIN evaluated :
          evaluated[k].new.plate \in evaluated[k].captured
              => RecordsOf(evaluated[k].id) = {}

\* a second track in the red band, not latched, with three readings, carries a
\* plate another track's record has put into the capture set
C1_Witness ==
    \E k \in DOMAIN evaluated :
        /\ evaluated[k].new.plate \in evaluated[k].captured
        /\ evaluated[k].new.color = "red"
        /\ ~evaluated[k].new.has_violated
        /\ Len(evaluated[k].new.speeds) >= MIN_READINGS
        /\ \E i \in DOMAIN emitted :
              /\ emitted[i].plate = evaluated[k].new.plate
              /\ emitted[i].vehicle_id # evaluated[k].id

\* C2: the counter never exceeds MAX_VIOLATIONS; once it equals MAX_VIOLATIONS
\* every later call returns an empty list and changes neither the counter nor
\* the records; no track is judged in a frame after the counter has reached
\* MAX_VIOLATIONS, so no further track emits in the frame that reaches it.
C2_CapNeverExceeded ==
    [][/\ violations_captured' <= MAX_VIOLATIONS
       /\ violations_captured >= MAX_VIOLATIONS =>
             /\ violations' = <<>>
             /\ emitted' = emitted
             /\ violations_captured' = violations_captured
       /\ \A k \in DOMAIN evaluated' : evaluated'[k].count < MAX_VIOLATIONS]_vars

\* the cap has been reached and a later frame shows a vehicle that no track was
\* ever opened for; the call returned nothing
C2_Witness ==
    /\ violations_captured = MAX_VIOLATIONS
    /\ violations = <<>>
    /\ \E v \in seen : vtrack[v] = NoId

\* C3 (as claimed): has_violated of a track never goes back to false and goes
\* to true only in a frame that returns the track's violation record.
C3_LatchSetOnlyWithRecord ==
    [][\A id \in DOMAIN vehicle_states' :
          /\ get_vehicle_state(vehicle_states, id).has_violated
                => vehicle_states'[id].has_violated
          /\ (/\ ~get_vehicle_state(vehicle_states, id).has_violated
              /\ vehicle_states'[id].has_violated)
                => \E r \in Range(violations') : r.vehicle_id = id]_vars

\* C4 (as claimed): a frame returns a record for a track exactly when the
\* track, as judged in that frame, is in the red band, was not latched, has a
\* plate outside the capture set and has at least three readings; hence never
\* with one or two readings and never a second time.
C4_EmittedExactlyWhenDue ==
    \A k \in DOMAIN evaluated :
        (/\ evaluated[k].new.color = "red"
         /\ ~evaluated[k].old.has_violated
         /\ evaluated[k].new.plate \notin evaluated[k].captured
         /\ Len(evaluated[k].new.speeds) >= MIN_READINGS)
            <=> RecordsOf(evaluated[k].id) # {}

\* C9 (as claimed): a track gets its fallback plate only in a frame where its
\* OCR attempts are used up (ocr_attempts = 5) and its band is red.
C9_FallbackOnlyWhenExhausted ==
    \A k \in DOMAIN evaluated :
        (/\ evaluated[k].old.plate = None
         /\ evaluated[k].new.plate = FallbackPlate(evaluated[k].id))
            => /\ evaluated[k].new.ocr_attempts = OCR_MAX_ATTEMPTS
               /\ evaluated[k].new.color = "red"

\* C10 (as claimed): the raw speed of the frame is appended to the queue of
\* every track the loop goes through, zero or not, and the smoothed speed is
\* the mean of the queue.
C10_ZeroReadingsPushed ==
    \A k \in DOMAIN evaluated :
        /\ evaluated[k].new.speeds =
              LastN(Append(evaluated[k].old.speeds, evaluated[k].speed_mph),
                    SPEED_QUEUE_CAP)
        /\ evaluated[k].new.avg_speed = Mean(evaluated[k].new.speeds)

\* C15 (as claimed): a failure of the screenshot write or of the notification
\* for a qualifying track is caught: process_frame does not raise, and every
\* track that entered the emission branch has its record in the returned list
\* and counted.
C15_CollaboratorFailureCaught ==
    /\ ~raised
    /\ \A k \in DOMAIN evaluated :
          evaluated[k].emit
             => /\ RecordsOf(evaluated[k].id) # {}
                /\ violations_captured > evaluated[k].count

\* C18 (as claimed): a frame in which the detector reports nothing is still
\* passed through the tracker by process_frame: every registered track's
\* counter of unseen frames goes up by one, and the track is deregistered once
\* the counter is more than max_disappeared.
C18_EmptyFrameReachesTracker ==
    [][(frame_count' = frame_count + 1 /\ ~CapReached(violations_captured) /\ seen' = {})
          => \A id \in DOMAIN disappeared :
                IF Expired(disappeared[id] + 1)
                THEN id \notin DOMAIN disappeared'
                ELSE id \in DOMAIN disappeared' /\ disappeared'[id] = disappeared[id] + 1]_vars

\* C22 (as claimed): the raw speed of an evaluated track is the median of the
\* per-pair speeds of the 5 most recent samples of its position history, and
\* 0 only when no pair with increasing timestamps exists, so that a history of
\* two samples that moved at least the noise floor already gives a speed.
C22_RawSpeedFromTwoSamples ==
    \A k \in DOMAIN evaluated :
       evaluated[k].id \in DOMAIN position_history
          => LET speeds == PairSpeeds(LastN(position_history[evaluated[k].id], WINDOW), 2)
             IN /\ evaluated[k].speed_mph = IF speeds = <<>> THEN 0 ELSE Median(speeds)
                /\ (Len(position_history[evaluated[k].id]) = 2 /\ speeds # <<>>
                      /\ speeds[1] > 0) => evaluated[k].speed_mph > 0

\* C23 (as claimed): after every call of process_frame, ended normally or by
\* an exception, the session counter equals the size of the capture set, the
\* number of tracks whose has_violated is true and the number of records
\* handed to the caller so far.
C23_EmissionIsOneStep ==
    /\ violations_captured = Cardinality(captured_plates)
    /\ violations_captured =
          Cardinality({id \in DOMAIN vehicle_states : vehicle_states[id].has_violated})
    /\ violations_captured = Len(emitted)

\* C27 (as claimed): in a frame in which a registered track is unmatched
\* (its disappearance counter is above 0) no reading is added to its speed
\* queue, its OCR attempt counter is not advanced and no record is emitted
\* for it.
C27_UnmatchedTrackLeftAlone ==
    \A k \in DOMAIN evaluated :
       (evaluated[k].id \in DOMAIN disappeared /\ disappeared[evaluated[k].id] > 0)
          => /\ evaluated[k].new.speeds = evaluated[k].old.speeds
             /\ evaluated[k].new.ocr_attempts = evaluated[k].old.ocr_attempts
             /\ ~evaluated[k].emit

\* C29 (as claimed): a track for which every read has failed does not wait for
\* a plate: in the frame in which it is evaluated in the red band with at least
\* 3 readings, not latched and with the session cap not reached, a record with
\* its placeholder plate is returned by that same call; placeholders of
\* different track ids differ.
C29_PlaceholderEmittedAtOnce ==
    /\ \A k \in DOMAIN evaluated :
          (/\ evaluated[k].new.plate[1] # "ocr"
           /\ evaluated[k].new.color = "red"
           /\ Len(evaluated[k].new.speeds) >= MIN_READINGS
           /\ ~evaluated[k].old.has_violated
           /\ ~CapReached(evaluated[k].count))
             => \E i \in DOMAIN violations :
                   /\ violations[i].vehicle_id = evaluated[k].id
                   /\ violations[i].plate = FallbackPlate(evaluated[k].id)
    /\ \A i, j \in DOMAIN objects :
          i # j => FallbackPlate(objects[i].id) # FallbackPlate(objects[j].id)

(***************************************************************************)
(* Claims about CentroidTracker.update, checked under SpecTracker          *)
(***************************************************************************)
\* the pixels a vehicle's centroid moved between two bounding boxes
Moved(x0, x1) == Dist(Centroid(<<x0, BoxW>>), Centroid(<<x1, BoxW>>))

C6_DeregisteredExactlyPastThreshold ==
    [][/\ \A id \in DOMAIN disappeared :
            LET hit == \E p \in matched' : p.id = id
                n == disappeared[id] + 1
            IN /\ hit => id \in DOMAIN disappeared' /\ disappeared'[id] = 0
               /\ (~hit /\ n <= max_disappeared) =>
                      /\ id \in DOMAIN disappeared' /\ disappeared'[id] = n
                      /\ id \in ObjectIds(objects')
               /\ (~hit /\ n = max_disappeared + 1) =>
                      /\ id \notin DOMAIN disappeared'
                      /\ id \notin ObjectIds(objects')
       /\ \A id \in DOMAIN disappeared' :
            disappeared'[id] >= 0 /\ disappeared'[id] <= max_disappeared]_vars

\* a track has been deregistered while another waits at the threshold
C6_Witness ==
    /\ \E id \in 0..(next_object_id - 1) : id \notin DOMAIN disappeared
    /\ \E id \in DOMAIN disappeared :
          disappeared[id] = max_disappeared /\ max_disappeared > 0

\* C7: ids are handed out in increasing order and never reused: every call
\* registers exactly its unmatched detections, under ids that start at the old
\* next_object_id and are all different, every registered id is below
\* next_object_id, and next_object_id never decreases.
C7_IdsIncreaseNeverReused ==
    [][LET fresh == DOMAIN disappeared' \ DOMAIN disappeared
           detected == Cardinality(seen')
       IN /\ next_object_id' >= next_object_id
          /\ \A id \in fresh : id >= next_object_id /\ id < next_object_id'
          /\ Cardinality(fresh) = next_object_id' - next_object_id
          /\ Cardinality(fresh) = detected - Cardinality(matched')
          /\ \A id \in DOMAIN disappeared' : id < next_object_id'
          /\ Cardinality(ObjectIds(objects')) = Len(objects')]_vars

\* a vehicle whose first track was deregistered is seen again where that track
\* was registered and gets a later id
C7_Witness ==
    \E v \in Vehicles :
        /\ v \in seen
        /\ vtrack[v] \in DOMAIN disappeared
        /\ vtrack[v] > 0
        /\ 0 \notin DOMAIN disappeared
        /\ next_object_id = 2
        /\ position_history[vtrack[v]] = <<<<Centroid(<<0, BoxW>>), frame_count>>>>

\* C8 (as claimed): every pair update accepts has a centroid distance strictly
\* below max_distance, with or without scipy.
C8_AcceptedStrictlyCloser ==
    \A p \in matched : p.dist < max_distance

\* the centroid the registry holds for a track
CentroidOf(objs, id) == (CHOOSE e \in Range(objs) : e.id = id).centroid

\* the detection columns of the call that ended in this state that no accepted pair took
UnmatchedCols == DOMAIN Detections(veh) \ {p.col : p \in matched}

\* an accepted pair's track has taken the detection's centroid and bbox, its
\* counter is 0 and its history is the old one with the new entry appended
\* (cut to the last HISTORY_CAP entries)
PairApplied(p) ==
    /\ CentroidOf(objects', p.id) = InputCentroids(Detections(veh'))[p.col]
    /\ bboxes'[p.id] = Detections(veh')[p.col]
    /\ disappeared'[p.id] = 0
    /\ position_history'[p.id] =
          LastN(Append(position_history[p.id],
                       <<InputCentroids(Detections(veh'))[p.col], frame_count'>>),
                HISTORY_CAP)

\* an unmatched track that stays: counter one more, everything else as before
OnlyCounted(id) ==
    /\ id \in ObjectIds(objects') /\ id \in DOMAIN disappeared'
    /\ disappeared'[id] = disappeared[id] + 1
    /\ CentroidOf(objects', id) = CentroidOf(objects, id)
    /\ bboxes'[id] = bboxes[id]
    /\ position_history'[id] = position_history[id]

\* an unmatched track that goes: no trace of it left in the registry
Removed(id) ==
    /\ id \notin ObjectIds(objects')
    /\ id \notin DOMAIN disappeared' \cup DOMAIN bboxes' \cup DOMAIN position_history'

\* every unmatched detection is a new track of its own with a fresh id,
\* counter 0 and a single-entry history
UnmatchedRegistered ==
    /\ Cardinality(ObjectIds(objects') \ ObjectIds(objects)) = Cardinality(UnmatchedCols')
    /\ \A j \in UnmatchedCols' :
          \E id \in ObjectIds(objects') \ ObjectIds(objects) :
             /\ id >= next_object_id
             /\ CentroidOf(objects', id) = InputCentroids(Detections(veh'))[j]
             /\ bboxes'[id] = Detections(veh')[j]
             /\ disappeared'[id] = 0
             /\ position_history'[id] = <<<<InputCentroids(Detections(veh'))[j], frame_count'>>>>

\* C19 (as claimed): in an update call with at least one detection and at least
\* one existing track, every accepted pair's track is updated in place, every
\* unmatched track has its counter incremented by exactly 1 with centroid, bbox
\* and history unchanged, and every unmatched detection becomes a new track.
C19_UnmatchedTrackOnlyCounted ==
    [][(objects # <<>> /\ seen' # {})
          => /\ \A p \in matched' : PairApplied(p)
             /\ \A id \in ObjectIds(objects) \ {p.id : p \in matched'} : OnlyCounted(id)
             /\ UnmatchedRegistered]_vars

\* C19 (amended): as above, except that an unmatched track whose incremented
\* counter is more than max_disappeared is removed from the registry instead.
C19_FrameEffectOfUpdate ==
    [][(objects # <<>> /\ seen' # {})
          => /\ \A p \in matched' : PairApplied(p)
             /\ \A id \in ObjectIds(objects) \ {p.id : p \in matched'} :
                   IF Expired(disappeared[id] + 1) THEN Removed(id) ELSE OnlyCounted(id)
             /\ UnmatchedRegistered]_vars

\* tracks 0 and 1 existed; the call matched track 0, left track 1 unmatched
\* with counter 1 and registered the other detection as track 2
C19_Witness ==
    /\ ObjectIds(objects) = {0, 1, 2}
    /\ next_object_id = 3
    /\ {p.id : p \in matched} = {0}
    /\ Len(position_history[0]) = 2 /\ disappeared[0] = 0
    /\ disappeared[1] = 1 /\ Len(position_history[1]) = 1
    /\ disappeared[2] = 0 /\ position_history[2][1][2] = frame_count
    /\ Len(position_history[2]) = 1

\* the tracks the last call matched or registered: counter 0 and the call's
\* timestamp on their last history entry
FreshTracks ==
    {id \in ObjectIds(objects) :
        /\ id \in DOMAIN disappeared /\ disappeared[id] = 0
        /\ id \in DOMAIN position_history /\ position_history[id] # <<>>
        /\ position_history[id][Len(position_history[id])][2] = frame_count}

\* C30: matching in update is one-to-one and loses no detection: no track is
\* in two accepted pairs and no detection is; the n detections of the call are
\* the current positions of n different tracks, each matched or registered in
\* this call, and exactly n tracks have counter 0 and the call's timestamp on
\* their last history entry; the registry's four dicts have the same ids.
C30_MatchingOneToOneNothingLost ==
    seen # {}
       => /\ \A p, q \in matched : (p.id = q.id \/ p.col = q.col) => p = q
          /\ Cardinality(FreshTracks) = Len(Detections(veh))
          /\ \E f \in [DOMAIN Detections(veh) -> FreshTracks] :
                /\ \A i, j \in DOMAIN f : f[i] = f[j] => i = j
                /\ \A j \in DOMAIN f :
                      /\ CentroidOf(objects, f[j]) = InputCentroids(Detections(veh))[j]
                      /\ bboxes[f[j]] = Detections(veh)[j]
          /\ ObjectIds(objects) = DOMAIN bboxes
          /\ ObjectIds(objects) = DOMAIN disappeared
          /\ ObjectIds(objects) = DOMAIN position_history

\* a call with two detections and two tracks in which one pair was accepted,
\* the other detection registered and the other track left unmatched
C30_Witness ==
    /\ Cardinality(seen) = 2
    /\ Cardinality(matched) = 1
    /\ Cardinality(ObjectIds(objects)) = 3
    /\ Cardinality(FreshTracks) = 2

(***************************************************************************)
(* Claims about the decision engine, checked under SpecEngine              *)
(***************************************************************************)
\* C11: after every frame in which a track is judged its band follows from its
\* smoothed speed alone: at or below the limit green (OK), less than 5 mph over
\* yellow (WARNING), 5 mph over or more red (VIOLATION), whatever the band was
\* before and whether or not the track has violated.
C11_BandFromSmoothedSpeed ==
    \A k \in DOMAIN evaluated :
        /\ vehicle_states[evaluated[k].id].color = evaluated[k].new.color
        /\ evaluated[k].new.avg_speed <= Mph(SPEED_LIMIT)
              => evaluated[k].new.color = "green"
        /\ (/\ evaluated[k].new.avg_speed > Mph(SPEED_LIMIT)
            /\ evaluated[k].new.avg_speed < Mph(SPEED_LIMIT + VIOLATION_MIN_OVER))
              => evaluated[k].new.color = "yellow"
        /\ evaluated[k].new.avg_speed >= Mph(SPEED_LIMIT + VIOLATION_MIN_OVER)
              => evaluated[k].new.color = "red"

\* a track that has violated falls from the red band back to a lower one
C11_Witness ==
    \E k \in DOMAIN evaluated :
        /\ evaluated[k].old.has_violated
        /\ evaluated[k].old.color = "red"
        /\ evaluated[k].new.color # "red"

\* the amounts over the limit the raw speeds of the engine stand for
OverInputs == {speed_mph - Mph(SPEED_LIMIT) : speed_mph \in SpeedInputs}

\* C12: the code and points of every record follow the tiers of the amount
\* over the limit: at most 10 over (A, 2), above 10 and at most 20 (B, 3),
\* above 20 and at most 30 (C, 5), above 30 (D, 8); and a smaller amount over
\* the limit never gets more points than the record's.
C12_CodeFollowsTiers ==
    \A k \in DOMAIN evaluated : \A i \in RecordsOf(evaluated[k].id) :
        /\ evaluated[k].new.avg_speed <= Mph(SPEED_LIMIT + 10)
              => violations[i].violation_code = "1180A" /\ violations[i].points = 2
        /\ (/\ evaluated[k].new.avg_speed > Mph(SPEED_LIMIT + 10)
            /\ evaluated[k].new.avg_speed <= Mph(SPEED_LIMIT + 20))
              => violations[i].violation_code = "1180B" /\ violations[i].points = 3
        /\ (/\ evaluated[k].new.avg_speed > Mph(SPEED_LIMIT + 20)
            /\ evaluated[k].new.avg_speed <= Mph(SPEED_LIMIT + 30))
              => violations[i].violation_code = "1180C" /\ violations[i].points = 5
        /\ evaluated[k].new.avg_speed > Mph(SPEED_LIMIT + 30)
              => violations[i].violation_code = "1180D" /\ violations[i].points = 8
        /\ \A over \in OverInputs :
              over < evaluated[k].new.avg_speed - Mph(SPEED_LIMIT)
                 => pick_violation_code(over)[2] <= violations[i].points

\* a record for a smoothed speed of exactly 20 over the limit carries code B
C12_Witness ==
    \E i \in DOMAIN violations :
        /\ violations[i].mph_over = Mph(20)
        /\ violations[i].violation_code = "1180B"
        /\ violations[i].points = 3

\* C13: once the plate of a track is not None, no later frame changes the
\* plate or its confidence or makes another OCR attempt for the track, whatever
\* the OCR engine would read.
C13_PinnedPlateFinal ==
    [][\A id \in DOMAIN vehicle_states :
          vehicle_states[id].plate # None
             => /\ vehicle_states'[id].plate = vehicle_states[id].plate
                /\ vehicle_states'[id].plate_confidence
                      = vehicle_states[id].plate_confidence
                /\ vehicle_states'[id].ocr_attempts
                      = vehicle_states[id].ocr_attempts]_vars

\* a track whose plate was read at a confidence below the best one the engine
\* can give is judged again with attempts left and keeps plate and confidence
C13_Witness ==
    \E k \in DOMAIN evaluated :
        /\ evaluated[k].old.plate = format_for_display(1)
        /\ evaluated[k].old.plate_confidence = 90
        /\ evaluated[k].old.ocr_attempts < OCR_MAX_ATTEMPTS
        /\ evaluated[k].new.plate = evaluated[k].old.plate
        /\ evaluated[k].new.plate_confidence = 90

\* the tracks the loop of the frame that ends a step went through
JudgedNow == {evaluated[k].id : k \in DOMAIN evaluated}

\* C14: a frame raises ocr_attempts of a track by exactly 1 when it judges the
\* track with no plate and fewer than 5 attempts, whatever becomes of the read,
\* and leaves it alone otherwise; ocr_attempts is always in 0..5.
C14_OneAttemptPerJudgedFrame ==
    [][/\ \A id \in JudgedNow' :
            vehicle_states'[id].ocr_attempts =
                IF /\ get_vehicle_state(vehicle_states, id).plate = None
                   /\ get_vehicle_state(vehicle_states, id).ocr_attempts < 5
                THEN get_vehicle_state(vehicle_states, id).ocr_attempts + 1
                ELSE get_vehicle_state(vehicle_states, id).ocr_attempts
       /\ \A id \in DOMAIN vehicle_states \ JudgedNow' :
            vehicle_states'[id].ocr_attempts = vehicle_states[id].ocr_attempts
       /\ \A id \in DOMAIN vehicle_states' :
            /\ vehicle_states'[id].ocr_attempts >= 0
            /\ vehicle_states'[id].ocr_attempts <= 5]_vars

\* a track without a plate that has used its five attempts is judged again
\* and no sixth attempt is made
C14_Witness ==
    \E k \in DOMAIN evaluated :
        /\ evaluated[k].old.plate = None
        /\ evaluated[k].old.ocr_attempts = 5
        /\ evaluated[k].new.ocr_attempts = 5
        /\ evaluated[k].new.plate = None

\* the record is the one the emission branch builds from the track's state
WellFormedRecord(r, state) ==
    /\ r.plate # None
    /\ r.plate = state.plate
    /\ state.avg_speed - Mph(SPEED_LIMIT) >= Mph(VIOLATION_MIN_OVER)
    /\ r.speed_mph = Round1(state.avg_speed)
    /\ r.speed_mph - Mph(r.speed_limit) >= Mph(VIOLATION_MIN_OVER)
    /\ r.mph_over = Round1(state.avg_speed - Mph(SPEED_LIMIT))
    /\ <<r.violation_code, r.points>> = pick_violation_code(state.avg_speed - Mph(SPEED_LIMIT))
    /\ r.plate_confidence = state.plate_confidence
    /\ (r.plate_confidence = 0) <=> (r.plate = FallbackPlate(r.vehicle_id))

\* C28: every emitted violation record is well formed: its plate is set and is
\* the emitting track's pinned plate, the smoothed speed is at least MIN_OVER
\* above the limit, code and points are pick_violation_code of that overage,
\* and the plate confidence is 0 exactly when the plate is the placeholder
\* made from the track id.
C28_RecordsWellFormed ==
    \A i \in DOMAIN violations :
       \E k \in DOMAIN evaluated :
          /\ evaluated[k].id = violations[i].vehicle_id
          /\ evaluated[k].emit
          /\ WellFormedRecord(violations[i], evaluated[k].new)

\* a record with the placeholder plate, confidence 0 and the points of 40 mph over
C28_Witness ==
    /\ violations # <<>>
    /\ violations[1].plate = FallbackPlate(violations[1].vehicle_id)
    /\ violations[1].plate_confidence = 0
    /\ violations[1].points = pick_violation_code(Mph(40))[2]

\* the evaluations of the last frame in which the plate reader was asked and
\* was unavailable or raised
FaultyReads ==
    {k \in DOMAIN evaluated : evaluated[k].ocr \in {"unavailable", "raises"}}

\* C17 (as claimed): when the plate reader is unavailable or raises, the frame
\* does not raise and leaves the track's state exactly as a read that returned
\* no text would, and while fewer than OCR_MAX_ATTEMPTS attempts are used the
\* next frame that evaluates the track attempts a read again.
C17_OcrFaultIsAnEmptyRead ==
    [][\A k \in FaultyReads :
          /\ ~raised
          /\ evaluated[k].new.has_violated = (evaluated[k].old.has_violated \/ evaluated[k].emit)
          /\ [evaluated[k].new EXCEPT !.has_violated = FALSE]
               = Colour(TryOcr(PushSpeed(evaluated[k].old, evaluated[k].speed_mph), NoRead),
                        evaluated[k].id)
          /\ evaluated[k].new.ocr_attempts < OCR_MAX_ATTEMPTS
               => \A j \in DOMAIN evaluated' :
                     evaluated'[j].id = evaluated[k].id
                        => evaluated'[j].new.ocr_attempts = evaluated'[j].old.ocr_attempts + 1]_vars

(***************************************************************************)
(* Claims about malformed detections, checked under SpecBoxes              *)
(***************************************************************************)
\* a bounding box of positive width lying inside the frame
WellFormed(bbox) == bbox[2] > 0 /\ bbox[1] >= 0 /\ bbox[1] + bbox[2] <= FrameW

\* the detections of a list that are well formed, in their order
WellFormedOnly(detections) == SelectSeq(detections, WellFormed)

\* C16 (as claimed): a malformed detection (non-positive width, or outside the
\* frame) is dropped before tracking: the call leaves the tracker as an update
\* with the well-formed detections of the frame alone would, so the malformed
\* one neither creates a track nor updates one.
C16_MalformedDropped ==
    [][\E proposal \in
           UpdateProposals(Tracker, WellFormedOnly(detect_vehicles(TRUE, yolo_boxes'))) :
          Tracker' = update(Tracker, WellFormedOnly(detect_vehicles(TRUE, yolo_boxes')),
                            frame_count', proposal)]_vars

(***************************************************************************)
(* Claims about the list update returns, checked under SpecHeld            *)
(***************************************************************************)
\* what the caller reads in the list it holds
HeldValues ==
    [k \in DOMAIN held.list |->
        [id |-> held.list[k].id, centroid |-> held.list[k].centroid,
         bbox |-> held.list[k].bbox, position_history |-> held.list[k].position_history]]

\* C20 (as claimed): the list returned by update is a read-only snapshot: an
\* update call made while the caller holds an earlier list leaves what that
\* list contains as it was, and a step that is not an update call (the caller
\* changing a history it holds) leaves the tracker's registry as it was.
C20_ReturnedListIsSnapshot ==
    [][/\ (frame_count' # frame_count /\ held'.at = held.at) => HeldValues' = HeldValues
       /\ frame_count' = frame_count => Tracker' = Tracker]_vars

(***************************************************************************)
(* Claims about SpeedEstimator.estimate_speed, checked under SpecEstimator *)
(***************************************************************************)
\* the time a call divides by, in frames: 1/fps when time_delta is absent or <= 0
EffectiveFrames(time_delta) ==
    IF time_delta = NoTimeDelta \/ time_delta <= 0 THEN 1 ELSE time_delta

\* C21: estimate_speed returns exactly 0 whenever the pixel displacement is
\* below min_movement, whatever time_delta is; for a displacement of at least
\* min_movement it returns pixels * meters_per_pixel / dt * 2.23694, with dt
\* one frame (1/fps) when time_delta is absent or <= 0, and that is positive.
C21_ZeroBelowFloorElseFormula ==
    est.speed_mph # NotEstimated
       => IF Dist(est.current_x, est.previous_x) < MIN_MOVEMENT
          THEN est.speed_mph = 0
          ELSE /\ est.speed_mph =
                    (Dist(est.current_x, est.previous_x) * MetersPerPixelE2 * Fps * MpsToMphE5)
                        \div (100 * EffectiveFrames(est.time_delta))
               /\ est.speed_mph > 0

\* a displacement of exactly min_movement with no time_delta given, answered
\* with the speed of three pixels per frame
C21_Witness ==
    /\ Dist(est.current_x, est.previous_x) = MIN_MOVEMENT
    /\ est.time_delta = NoTimeDelta
    /\ est.speed_mph = MIN_MOVEMENT * MphPerPixelFrame

(***************************************************************************)
(* Claims about a long session, checked under SpecSession                  *)
(***************************************************************************)
\* C24 (as claimed): a VehicleState is destroyed when its track is
\* deregistered: after every processed frame the track ids that have a
\* VehicleState are registered in the tracker.
C24_StatesOnlyOfLiveTracks ==
    DOMAIN vehicle_states \subseteq ObjectIds(objects)

\* the step is a frame that process_frame hands to tracker.update
UpdateCalled ==
    frame_count' = frame_count + 1 /\ ~CapReached(violations_captured) /\ seen' # {}

\* the history of a registered track: 1 to HISTORY_CAP samples in the order
\* of their timestamps, the last of them at the track's current centroid
HistoryInShape(id) ==
    /\ id \in DOMAIN position_history
    /\ Len(position_history[id]) \in 1..HISTORY_CAP
    /\ \A i \in 1..(Len(position_history[id]) - 1) :
          position_history[id][i][2] < position_history[id][i + 1][2]
    /\ position_history[id][Len(position_history[id])][1] = CentroidOf(objects, id)

\* C25: after every update call each registered track's position history has
\* between 1 and 30 entries, in arrival order, its last entry is the track's
\* current centroid, and a matched track's history is the old one with the new
\* sample appended, without its oldest entry when that makes 31.
C25_HistoryCappedOldestDropped ==
    /\ [](\A id \in ObjectIds(objects) : HistoryInShape(id))
    /\ [][\A p \in (IF UpdateCalled THEN matched' ELSE {}) :
            position_history'[p.id] =
               (IF Len(position_history[p.id]) = HISTORY_CAP
                THEN Tail(position_history[p.id]) ELSE position_history[p.id])
               \o <<<<CentroidOf(objects', p.id), frame_count'>>>>]_vars

\* a track that has been matched 31 times: its history has 30 entries and the
\* oldest is the vehicle's second sample
C25_Witness ==
    \E v \in Vehicles :
       /\ vtrack[v] \in ObjectIds(objects)
       /\ Len(position_history[vtrack[v]]) = HISTORY_CAP
       /\ position_history[vtrack[v]][1][1] = Centroid(<<EntryX(v) + StepOf.steady, BoxW>>)
       /\ position_history[vtrack[v]][HISTORY_CAP][2] = frame_count

(***************************************************************************)
(* Claims about the speed queue, checked under SpecQueue                   *)
(***************************************************************************)
\* C26: a track's speed queue never holds more than 10 entries; a push onto a
\* full queue evicts the oldest reading and keeps the order of the others, and
\* after a push the smoothed speed is the mean of the queue.
C26_QueueCappedFifo ==
    /\ \A id \in DOMAIN vehicle_states : Len(vehicle_states[id].speeds) <= SPEED_QUEUE_CAP
    /\ \A k \in DOMAIN evaluated :
          evaluated[k].speed_mph > 0
             => /\ evaluated[k].new.speeds =
                      (IF Len(evaluated[k].old.speeds) = SPEED_QUEUE_CAP
                       THEN Tail(evaluated[k].old.speeds) ELSE evaluated[k].old.speeds)
                      \o <<evaluated[k].speed_mph>>
                /\ evaluated[k].new.avg_speed * Len(evaluated[k].new.speeds)
                      <= SumSeq(evaluated[k].new.speeds)
                /\ SumSeq(evaluated[k].new.speeds)
                      < (evaluated[k].new.avg_speed + 1) * Len(evaluated[k].new.speeds)

\* an 11th reading pushed onto a full queue whose two oldest readings differ
C26_Witness ==
    \E k \in DOMAIN evaluated :
       /\ Len(evaluated[k].old.speeds) = SPEED_QUEUE_CAP
       /\ evaluated[k].speed_mph > 0
       /\ evaluated[k].old.speeds[1] # evaluated[k].old.speeds[2]
       /\ evaluated[k].new.speeds[1] = evaluated[k].old.speeds[2]
       /\ evaluated[k].new.speeds[SPEED_QUEUE_CAP] = evaluated[k].speed_mph

====
